---- MODULE Spec2Model ----
(***************************************************************************)
(* tools/plot_performance.py: a one-shot script that reads a JSON baseline *)
(* file, draws a horizontal bar chart of AvgMs per Name and saves it next  *)
(* to the input as plot-<stem>.png.                                        *)
(*                                                                         *)
(* The module models one process run statement by statement (pc names the  *)
(* next statement), the file system the run reads and writes, and the      *)
(* library calls the script makes (pathlib, json, matplotlib) by what they *)
(* do to the values the script hands them.                                 *)
(*                                                                         *)
(* Numbers are exact: a Python float is kept in quarters, and a chart      *)
(* coordinate in four-hundredths.                                          *)
(***************************************************************************)
EXTENDS Integers, Sequences, FiniteSets, TLC

(***************************************************************************)
(* Bounds of the model.                                                    *)
(***************************************************************************)
\* longest enumerated command-line argument, in characters
MaxArgLen == 3
\* longest enumerated array of well-formed records
MaxRecords == 2
\* float AvgMs literals range over -MaxQ/4 .. MaxQ/4
MaxQ == 3
\* number of consecutive invocations on the same command line
MaxRuns == 2

(***************************************************************************)
(* Python values.  Every value is a record of the same shape, t naming its *)
(* type: n holds the number of a bool (0 or 1), an int or a float (in      *)
(* quarters), s the text of a str, xs the elements of a list or the values *)
(* of a dict, ks the keys of a dict (in insertion order, unique).          *)
(***************************************************************************)
PyNone == [t |-> "None", n |-> 0, s |-> "", ks |-> <<>>, xs |-> <<>>]
PyBool(b) == [t |-> "bool", n |-> IF b THEN 1 ELSE 0, s |-> "", ks |-> <<>>, xs |-> <<>>]
PyInt(n) == [t |-> "int", n |-> n, s |-> "", ks |-> <<>>, xs |-> <<>>]
PyFloat(q) == [t |-> "float", n |-> q, s |-> "", ks |-> <<>>, xs |-> <<>>]
PyStr(s) == [t |-> "str", n |-> 0, s |-> s, ks |-> <<>>, xs |-> <<>>]
PyList(xs) == [t |-> "list", n |-> 0, s |-> "", ks |-> <<>>, xs |-> xs]
PyDict(ks, xs) == [t |-> "dict", n |-> 0, s |-> "", ks |-> ks, xs |-> xs]

\* the types Python arithmetic, comparison and float formatting accept
IsNumber(x) == x.t \in {"int", "float", "bool"}

\* the numeric value of a Python number, in quarters
Quarters(x) == IF x.t = "float" THEN x.n ELSE 4 * x.n

(***************************************************************************)
(* JSON text, as its sequence of lexical tokens [k, s, n]:                 *)
(*   k = "p"   punctuation s, one of [ ] { } , :                           *)
(*   k = "s"   the string literal s                                        *)
(*   k = "i"   a number literal without fraction or exponent, value n      *)
(*   k = "f"   a number literal with a fraction, value n/4                 *)
(*   k = "w"   the bare word s: null, true, false, or anything else,       *)
(*             which the scanner rejects                                   *)
(***************************************************************************)
P(c) == [k |-> "p", s |-> c, n |-> 0]
TStr(s) == [k |-> "s", s |-> s, n |-> 0]
TInt(n) == [k |-> "i", s |-> "", n |-> n]
TFloat(q) == [k |-> "f", s |-> "", n |-> q]
TWord(w) == [k |-> "w", s |-> w, n |-> 0]

IsP(tok, c) == tok.k = "p" /\ tok.s = c

\* d[key] = val while a dict is built: a repeated key keeps its first position
\* and takes the last value
DictSet(d, key, val) ==
  IF \E j \in 1..Len(d.ks) : d.ks[j] = key
  THEN PyDict(d.ks, [j \in 1..Len(d.ks) |-> IF d.ks[j] = key THEN val ELSE d.xs[j]])
  ELSE PyDict(Append(d.ks, key), Append(d.xs, val))

DecodeError == [ok |-> FALSE, val |-> PyNone, nxt |-> 0]
Decoded(val, nxt) == [ok |-> TRUE, val |-> val, nxt |-> nxt]

RECURSIVE ParseValue(_, _), ParseElems(_, _, _), ParseMembers(_, _, _)

\* json.JSONDecoder.raw_decode: the value that starts at token i
ParseValue(toks, i) ==
  IF i > Len(toks) THEN DecodeError
  ELSE LET tok == toks[i] IN
    CASE tok.k = "s" -> Decoded(PyStr(tok.s), i + 1)
      [] tok.k = "i" -> Decoded(PyInt(tok.n), i + 1)
      [] tok.k = "f" -> Decoded(PyFloat(tok.n), i + 1)
      [] tok.k = "w" ->
           CASE tok.s = "null" -> Decoded(PyNone, i + 1)
             [] tok.s = "true" -> Decoded(PyBool(TRUE), i + 1)
             [] tok.s = "false" -> Decoded(PyBool(FALSE), i + 1)
             [] OTHER -> DecodeError
      [] tok.k = "p" ->
           CASE tok.s = "[" ->
                  IF i + 1 <= Len(toks) /\ IsP(toks[i + 1], "]")
                  THEN Decoded(PyList(<<>>), i + 2)
                  ELSE ParseElems(toks, i + 1, <<>>)
             [] tok.s = "{" ->
                  IF i + 1 <= Len(toks) /\ IsP(toks[i + 1], "}")
                  THEN Decoded(PyDict(<<>>, <<>>), i + 2)
                  ELSE ParseMembers(toks, i + 1, PyDict(<<>>, <<>>))
             [] OTHER -> DecodeError

\* the elements of an array after its "[", acc the elements decoded so far
ParseElems(toks, i, acc) ==
  LET r == ParseValue(toks, i) IN
  IF ~r.ok \/ r.nxt > Len(toks) THEN DecodeError
  ELSE IF IsP(toks[r.nxt], ",") THEN ParseElems(toks, r.nxt + 1, Append(acc, r.val))
  ELSE IF IsP(toks[r.nxt], "]") THEN Decoded(PyList(Append(acc, r.val)), r.nxt + 1)
  ELSE DecodeError

\* the members of an object after its "{", acc the dict built so far
ParseMembers(toks, i, acc) ==
  IF i + 1 > Len(toks) \/ toks[i].k # "s" \/ ~IsP(toks[i + 1], ":") THEN DecodeError
  ELSE LET r == ParseValue(toks, i + 2) IN
    IF ~r.ok \/ r.nxt > Len(toks) THEN DecodeError
    ELSE IF IsP(toks[r.nxt], ",")
         THEN ParseMembers(toks, r.nxt + 1, DictSet(acc, toks[i].s, r.val))
    ELSE IF IsP(toks[r.nxt], "}")
         THEN Decoded(DictSet(acc, toks[i].s, r.val), r.nxt + 1)
    ELSE DecodeError

\* json.loads: one value and nothing after it, else JSONDecodeError
JsonLoads(toks) ==
  LET r == ParseValue(toks, 1) IN
  IF r.ok /\ r.nxt = Len(toks) + 1
  THEN [ok |-> TRUE, val |-> r.val]
  ELSE [ok |-> FALSE, val |-> PyNone]

(***************************************************************************)
(* pathlib (POSIX flavour).  A path is its root and its parts; a part is   *)
(* a sequence of characters.                                               *)
(***************************************************************************)
RECURSIVE SplitSlash(_, _, _)
\* s.split('/'): cur is the component being read, acc the finished ones
SplitSlash(s, cur, acc) ==
  IF s = <<>> THEN Append(acc, cur)
  ELSE IF Head(s) = "/" THEN SplitSlash(Tail(s), <<>>, Append(acc, cur))
  ELSE SplitSlash(Tail(s), Append(cur, Head(s)), acc)

\* PurePosixPath(s): a leading "/" is the root (exactly two slashes are kept
\* as "//"), empty and "." components are dropped
PathOf(s) ==
  LET n == Len(s)
      root == IF n >= 1 /\ s[1] = "/"
              THEN IF n >= 2 /\ s[2] = "/" /\ ~(n >= 3 /\ s[3] = "/")
                   THEN <<"/", "/">> ELSE <<"/">>
              ELSE <<>>
  IN [root |-> root,
      parts |-> SelectSeq(SplitSlash(s, <<>>, <<>>), LAMBDA c : c # <<>> /\ c # <<".">>)]

\* PurePath.name
PathName(p) == IF p.parts = <<>> THEN <<>> ELSE p.parts[Len(p.parts)]

\* PurePath.parent
PathParent(p) ==
  IF p.parts = <<>> THEN p
  ELSE [root |-> p.root, parts |-> SubSeq(p.parts, 1, Len(p.parts) - 1)]

\* str.rfind('.'), 0-based, -1 when there is no dot
RFindDot(name) ==
  LET dots == {j \in 1..Len(name) : name[j] = "."} IN
  IF dots = {} THEN -1 ELSE (CHOOSE j \in dots : \A m \in dots : m <= j) - 1

\* PurePath.stem
PathStem(p) ==
  LET name == PathName(p)
      i == RFindDot(name)
  IN IF 0 < i /\ i < Len(name) - 1 THEN SubSeq(name, 1, i) ELSE name

\* p / name, for a name that holds no slash and is neither empty nor "."
PathJoin(p, name) == [root |-> p.root, parts |-> Append(p.parts, name)]

RECURSIVE JoinSlash(_)
JoinSlash(parts) ==
  IF parts = <<>> THEN <<>>
  ELSE IF Len(parts) = 1 THEN parts[1]
  ELSE parts[1] \o <<"/">> \o JoinSlash(Tail(parts))

\* str(p)
PathStr(p) ==
  IF p.root = <<>> /\ p.parts = <<>> THEN <<".">> ELSE p.root \o JoinSlash(p.parts)

(***************************************************************************)
(* The file system: a function from the paths that exist to what is there. *)
(* An entry is a directory, a text file (its JSON tokens) or a saved       *)
(* figure.                                                                 *)
(***************************************************************************)
NoFig == [bars |-> <<>>, texts |-> <<>>, xlabel |-> "", title |-> "", style |-> "",
          tight |-> FALSE]
DirEntry == [kind |-> "dir", text |-> <<>>, fig |-> NoFig]
TextEntry(toks) == [kind |-> "text", text |-> toks, fig |-> NoFig]
PngEntry(f) == [kind |-> "png", text |-> <<>>, fig |-> f]

\* Path.exists(): true of anything at the path, a directory included
PathExists(files, q) == q \in DOMAIN files

\* Path.read_text(): the text of a regular file; a directory raises
\* IsADirectoryError, bytes that are not text raise UnicodeDecodeError
ReadText(files, q) ==
  CASE ~PathExists(files, q) -> [ok |-> FALSE, exc |-> "FileNotFoundError", text |-> <<>>]
    [] files[q].kind = "dir" -> [ok |-> FALSE, exc |-> "IsADirectoryError", text |-> <<>>]
    [] files[q].kind = "png" -> [ok |-> FALSE, exc |-> "UnicodeDecodeError", text |-> <<>>]
    [] OTHER -> [ok |-> TRUE, exc |-> "", text |-> files[q].text]

\* savefig as it would be with the file opened in exclusive-creation mode: a
\* file already at q raises FileExistsError (sensitivity check of C8)
WriteFigExclusive(files, q, f) ==
  IF PathExists(files, q)
  THEN [ok |-> FALSE, exc |-> "FileExistsError", files |-> files]
  ELSE [ok |-> TRUE, exc |-> "",
        files |-> [r \in DOMAIN files \cup {q} |-> IF r = q THEN PngEntry(f) ELSE files[r]]]

\* fig.savefig(q): open q for writing, truncating what is there; a directory
\* at q raises IsADirectoryError
WriteFig(files, q, f) ==
  IF PathExists(files, q) /\ files[q].kind = "dir"
  THEN [ok |-> FALSE, exc |-> "IsADirectoryError", files |-> files]
  ELSE [ok |-> TRUE, exc |-> "",
        files |-> [r \in DOMAIN files \cup {q} |-> IF r = q THEN PngEntry(f) ELSE files[r]]]

(***************************************************************************)
(* The script's expressions.                                               *)
(***************************************************************************)
Chars(str) ==
  CASE str = "plot-" -> <<"p", "l", "o", "t", "-">>
    [] str = ".png" -> <<".", "p", "n", "g">>

\* the argument check off by one: len(sys.argv) < 1 (sensitivity check of C2)
ArgMissingOffByOne(av) == Len(av) < 1

\* line 6: len(sys.argv) < 2
ArgMissing(av) == Len(av) < 2

\* the output path with the name cut at its first dot, name.split('.')[0]
\* (sensitivity check of C5)
OutPathFirstDot(q) ==
  LET name == PathName(q)
      dots == {j \in 1..Len(name) : name[j] = "."}
      cut == IF dots = {} THEN Len(name)
             ELSE (CHOOSE j \in dots : \A m \in dots : j <= m) - 1
  IN PathJoin(PathParent(q), Chars("plot-") \o SubSeq(name, 1, cut) \o Chars(".png"))

\* the output path as p.with_suffix('.png'), without the plot- prefix
\* (sensitivity check of C9)
OutPathWithSuffix(q) == PathJoin(PathParent(q), PathStem(q) \o Chars(".png"))

\* line 27: p.parent / ('plot-' + p.stem + '.png')
OutPath(q) == PathJoin(PathParent(q), Chars("plot-") \o PathStem(q) \o Chars(".png"))

\* for d in data: a list yields its elements, a dict its keys, a str its
\* characters (only their number matters below); anything else is not iterable
Iterate(x) ==
  CASE x.t = "list" -> [ok |-> TRUE, items |-> x.xs]
    [] x.t = "dict" -> [ok |-> TRUE, items |-> [j \in 1..Len(x.ks) |-> PyStr(x.ks[j])]]
    [] x.t = "str" -> [ok |-> TRUE, items |-> [j \in 1..Len(x.s) |-> PyStr("c")]]
    [] OTHER -> [ok |-> FALSE, items |-> <<>>]

\* d[key] with a str key: the value of a dict's key; KeyError when the dict has
\* no such key, TypeError when d is no dict
Subscript(d, key) ==
  IF d.t # "dict" THEN [ok |-> FALSE, exc |-> "TypeError", val |-> PyNone]
  ELSE IF \E j \in 1..Len(d.ks) : d.ks[j] = key
  THEN [ok |-> TRUE, exc |-> "",
        val |-> d.xs[CHOOSE j \in 1..Len(d.ks) : d.ks[j] = key]]
  ELSE [ok |-> FALSE, exc |-> "KeyError", val |-> PyNone]

RECURSIVE Dedup(_, _)
\* xs without the values already in seen, keeping first occurrences
Dedup(xs, seen) ==
  IF xs = <<>> THEN <<>>
  ELSE IF Head(xs) \in seen THEN Dedup(Tail(xs), seen)
  ELSE <<Head(xs)>> \o Dedup(Tail(xs), seen \cup {Head(xs)})

\* the extraction through a dict keyed by value, list(dict.fromkeys(...)):
\* repeated values collapse (sensitivity check of C7)
ExtractDedup(x, key) ==
  LET it == Iterate(x) IN
  IF ~it.ok THEN [ok |-> FALSE, exc |-> "TypeError", val |-> <<>>]
  ELSE IF \E j \in 1..Len(it.items) : ~Subscript(it.items[j], key).ok
  THEN [ok |-> FALSE, exc |-> "KeyError", val |-> <<>>]
  ELSE [ok |-> TRUE, exc |-> "",
        val |-> Dedup([j \in 1..Len(it.items) |-> Subscript(it.items[j], key).val], {})]

\* lines 16, 17: [d[key] for d in data]
Extract(x, key) ==
  LET it == Iterate(x) IN
  IF ~it.ok THEN [ok |-> FALSE, exc |-> "TypeError", val |-> <<>>]
  ELSE IF \E j \in 1..Len(it.items) : ~Subscript(it.items[j], key).ok
  THEN [ok |-> FALSE,
        exc |-> Subscript(it.items[CHOOSE j \in 1..Len(it.items) :
                            /\ ~Subscript(it.items[j], key).ok
                            /\ \A m \in 1..(j - 1) : Subscript(it.items[m], key).ok],
                          key).exc,
        val |-> <<>>]
  ELSE [ok |-> TRUE, exc |-> "",
        val |-> [j \in 1..Len(it.items) |-> Subscript(it.items[j], key).val]]

\* line 21: the colour list, cut to the number of names
Palette == <<"#2b8cbe", "#7bccc4", "#a6bddb", "#d0d1e6">>
Colors(ns) == SubSeq(Palette, 1, IF Len(ns) < Len(Palette) THEN Len(ns) ELSE Len(Palette))

\* Axes.barh(y, width, color): one bar per entry, in order; the colours cycle
Barh(ys, widths, colors) ==
  [j \in 1..Len(ys) |->
     [y |-> ys[j], width |-> widths[j],
      color |-> IF colors = <<>> THEN "none" ELSE colors[((j - 1) % Len(colors)) + 1]]]

\* what barh is known to take: str labels and number widths of equal count
BarhAccepts(ys, widths) ==
  /\ Len(ys) = Len(widths)
  /\ \A j \in 1..Len(ys) : ys[j].t = "str"
  /\ \A j \in 1..Len(widths) : widths[j].t \in {"int", "float"}

\* max(avgs) over numbers: the first of the largest
PyMax(xs) ==
  xs[CHOOSE j \in 1..Len(xs) :
       /\ \A m \in 1..Len(xs) : Quarters(xs[m]) <= Quarters(xs[j])
       /\ \A m \in 1..(j - 1) : Quarters(xs[m]) < Quarters(xs[j])]

\* the label position with the offset taken from the bar's own value,
\* v + v*0.01 (sensitivity check of C10)
TextXOwnValue(xs, v) ==
  IF \A j \in 1..Len(xs) : IsNumber(xs[j])
  THEN [ok |-> TRUE, x |-> 100 * Quarters(v) + Quarters(v)]
  ELSE [ok |-> FALSE, x |-> 0]

\* line 25: v + max(avgs)*0.01, in four-hundredths.  A value that is no number
\* fails either the comparison inside max or the arithmetic: TypeError
TextX(xs, v) ==
  IF \A j \in 1..Len(xs) : IsNumber(xs[j])
  THEN [ok |-> TRUE, x |-> 100 * Quarters(v) + Quarters(PyMax(xs))]
  ELSE [ok |-> FALSE, x |-> 0]

\* round(a/4) for a >= 0, ties to the even integer (what the 'f' format does)
RoundHalfEven(a) ==
  LET f == a \div 4
      r == a % 4
  IN IF r < 2 THEN f
     ELSE IF r > 2 THEN f + 1
     ELSE IF f % 2 = 0 THEN f ELSE f + 1

\* line 25: f"{v:.0f} ms": the sign and the digits of v rounded to no decimals
Fmt0f(v) ==
  LET q == Quarters(v) IN
  [neg |-> q < 0, int |-> RoundHalfEven(IF q < 0 THEN -q ELSE q), unit |-> " ms"]

(***************************************************************************)
(* The inputs of a run: the command line and the files it finds.           *)
(***************************************************************************)
ArgChars == {"a", ".", "/"}
ShortArgs == UNION {[1..n -> ArgChars] : n \in 0..MaxArgLen}
\* d/r.r.j (several dots), plot-a, a.png and plot-a.png
LongArgs ==
  { <<"d", "/", "r", ".", "r", ".", "j">>,
    Chars("plot-") \o <<"a">>,
    <<"a">> \o Chars(".png"),
    Chars("plot-") \o <<"a">> \o Chars(".png") }
Script == <<"s">>
\* the argument every text is tried with
BasicArgs == { <<"d", "/", "r", ".", "r", ".", "j">> }
ArgVectors ==
  {<<Script>>} \cup {<<Script, a>> : a \in ShortArgs \cup LongArgs}
    \cup {<<Script, <<"a">>, <<"a">> >>}

RECURSIVE JoinComma(_)
JoinComma(elems) ==
  IF elems = <<>> THEN <<>>
  ELSE IF Len(elems) = 1 THEN elems[1]
  ELSE elems[1] \o <<P(",")>> \o JoinComma(Tail(elems))

\* the text of an array and of an object with the given members
Arr(elems) == <<P("[")>> \o JoinComma(elems) \o <<P("]")>>
Member(key, val) == <<TStr(key), P(":")>> \o val
Obj(members) == <<P("{")>> \o JoinComma(members) \o <<P("}")>>
Rec(name, avg) == Obj(<<Member("Name", <<name>>), Member("AvgMs", <<avg>>)>>)

AvgToks == {TFloat(q) : q \in (-MaxQ)..MaxQ} \cup {TInt(10)}
WFRecords == {Rec(TStr("A"), a) : a \in AvgToks} \cup {Rec(TStr("B"), TInt(20))}
WFTexts == {Arr(rs) : rs \in UNION {[1..n -> WFRecords] : n \in 0..MaxRecords}}

\* array elements that are not records of the expected shape: a field absent,
\* a field of the wrong type, or no object at all
BadElemTexts ==
  { Obj(<<Member("Name", <<TStr("A")>>)>>),
    Obj(<<Member("AvgMs", <<TInt(10)>>)>>),
    Obj(<<>>),
    Rec(TInt(7), TInt(10)),
    Rec(TWord("null"), TInt(10)),
    Rec(TStr("A"), TStr("10")),
    Rec(TStr("A"), TWord("null")),
    Rec(TStr("A"), TWord("true")),
    Obj(<<Member("Name", <<TStr("A")>>), Member("AvgMs", Arr(<< <<TInt(1)>> >>))>>),
    <<TStr("A")>>, <<TInt(5)>>, <<TWord("null")>>, Arr(<<>>) }
GoodRec == Rec(TStr("B"), TInt(20))
BadArrayTexts ==
  UNION {{Arr(<<b>>), Arr(<<GoodRec, b>>), Arr(<<b, GoodRec>>)} : b \in BadElemTexts}

\* valid JSON that is no array
NonArrayTexts ==
  { Obj(<<>>), GoodRec, Obj(<<Member("runs", Arr(<<GoodRec>>))>>),
    <<TStr("")>>, <<TStr("AB")>>, <<TInt(5)>>, <<TFloat(2)>>,
    <<TWord("null")>>, <<TWord("true")>> }

\* text that is no JSON
InvalidTexts ==
  { <<>>, <<P("[")>>, <<P("["), P(",") , P("]")>>,
    SubSeq(Arr(<<GoodRec>>), 1, Len(Arr(<<GoodRec>>)) - 1),
    Arr(<<GoodRec>>) \o <<P("]")>>,
    <<P("[")>> \o GoodRec \o <<P(","), P("]")>>,
    <<P("["), P("{"), TStr("Name"), TStr("A"), P("}"), P("]")>>,
    <<TWord("NaM")>>, Arr(<<GoodRec>>) \o Arr(<<>>) }

AllTexts == WFTexts \cup BadArrayTexts \cup NonArrayTexts \cup InvalidTexts
\* the texts every argument is tried with
BasicTexts ==
  { Arr(<<>>), Arr(<<Rec(TStr("A"), TInt(10)), GoodRec>>), Obj(<<>>),
    Arr(<<Obj(<<>>)>>), <<P("[")>> }

\* a figure some earlier program left at the output path
StaleFig == [NoFig EXCEPT !.title = "stale"]

\* what can be at path q: "/" and "." and ".." are directories
AlwaysDir(q) == \A j \in 1..Len(q.parts) : q.parts[j] = <<".", ".">>
InputEntries(a) ==
  IF AlwaysDir(PathOf(a)) THEN {DirEntry}
  ELSE {DirEntry, [kind |-> "absent", text |-> <<>>, fig |-> NoFig]}
         \cup {TextEntry(t) : t \in IF a \in BasicArgs THEN AllTexts ELSE BasicTexts}
OutputEntries == {DirEntry, [kind |-> "absent", text |-> <<>>, fig |-> NoFig], PngEntry(StaleFig)}

\* the file system with e at q and o at the output path derived from q
FileSystem(q, e, o) ==
  LET at == [r \in {q, OutPath(q)} |-> IF r = q THEN e ELSE o]
  IN [r \in {x \in DOMAIN at : at[x].kind # "absent"} |-> at[r]]

(***************************************************************************)
(* The state of a run.                                                     *)
(***************************************************************************)
VARIABLES
  argv,      \* sys.argv: the script's name, then the arguments
  fs,        \* the file system
  fs0,       \* the file system before the first run
  lenient,   \* whether the installed matplotlib draws what barh is not known to take
  pc,        \* the statement the run is at; "exited" after it ended
  p,         \* line 10
  data,      \* line 15
  names,     \* line 16
  avgs,      \* line 17
  fig,       \* the figure of lines 20-28
  i,         \* the enumerate index of line 24
  maxCalls,  \* how often max(avgs) was evaluated
  out,       \* line 27
  stdout,    \* the lines printed
  exc,       \* the uncaught exception that ended the run, "" if none
  exitCode,  \* the process's exit status, -1 while it runs
  reads,     \* the paths opened for reading
  writes,    \* the paths opened for writing
  run,       \* the number of this invocation
  prev       \* how the previous invocation ended

vars == <<argv, fs, fs0, lenient, pc, p, data, names, avgs, fig, i, maxCalls, out, stdout, exc,
          exitCode, reads, writes, run, prev>>

NoPath == [root |-> <<>>, parts |-> <<>>]
NoRun == [exitCode |-> -1, out |-> NoPath, saved |-> NoFig, stdout |-> <<>>]

\* a fresh interpreter: nothing is bound yet
Fresh ==
  /\ pc = "args"
  /\ p = NoPath
  /\ data = PyNone
  /\ names = <<>>
  /\ avgs = <<>>
  /\ fig = NoFig
  /\ i = 0
  /\ maxCalls = 0
  /\ out = NoPath
  /\ stdout = <<>>
  /\ exc = ""
  /\ exitCode = -1
  /\ reads = {}
  /\ writes = {}

Init ==
  /\ argv \in ArgVectors
  /\ \E e \in InputEntries(IF Len(argv) < 2 THEN <<"a">> ELSE argv[2]),
        o \in OutputEntries :
       /\ fs = FileSystem(PathOf(IF Len(argv) < 2 THEN <<"a">> ELSE argv[2]), e, o)
       \* the library's choice shows only on a text that is no array of records
       /\ lenient \in IF e.kind = "text" /\ e.text \notin WFTexts THEN BOOLEAN ELSE {FALSE}
  /\ fs0 = fs
  /\ Fresh
  /\ run = 1
  /\ prev = NoRun

(***************************************************************************)
(* The statements of the script, one action each.                          *)
(***************************************************************************)
\* sys.exit(code), or falling off the end of the script (code 0)
Exit(code) ==
  /\ pc' = "exited"
  /\ exitCode' = code
  /\ exc' = exc

\* an exception nothing catches: the interpreter prints the traceback and
\* exits with status 1
Raise(e) ==
  /\ pc' = "exited"
  /\ exitCode' = 1
  /\ exc' = e

Goto(next) ==
  /\ pc' = next
  /\ exitCode' = exitCode
  /\ exc' = exc

UsageLine == [msg |-> "Usage: plot_performance.py <baseline.json>", arg |-> <<>>]
NotFoundLine == [msg |-> "File not found:", arg |-> PathStr(PathOf(argv[2]))]
\* the report naming the input instead of the output (sensitivity check of C1)
WroteLineInput == [msg |-> "Wrote", arg |-> PathStr(p)]
WroteLine == [msg |-> "Wrote", arg |-> PathStr(out)]

\* lines 6-8
CheckArgs ==
  /\ pc = "args"
  /\ IF ArgMissing(argv)
     THEN stdout' = Append(stdout, UsageLine) /\ Exit(2)
     ELSE stdout' = stdout /\ Goto("path")
  /\ UNCHANGED <<argv, fs, fs0, lenient, p, data, names, avgs, fig, i, maxCalls, out, reads,
                 writes, run, prev>>

\* lines 10-13
CheckPath ==
  /\ pc = "path"
  /\ IF Len(argv) < 2
     THEN p' = p /\ stdout' = stdout /\ Raise("IndexError")
     ELSE /\ p' = PathOf(argv[2])
          /\ IF ~PathExists(fs, p')
             THEN stdout' = Append(stdout, NotFoundLine) /\ Exit(2)
             ELSE stdout' = stdout /\ Goto("load")
  /\ UNCHANGED <<argv, fs, fs0, lenient, data, names, avgs, fig, i, maxCalls, out, reads, writes,
                 run, prev>>

\* line 15
Load ==
  /\ pc = "load"
  /\ reads' = reads \cup {p}
  /\ LET r == ReadText(fs, p) IN
     IF ~r.ok THEN data' = data /\ Raise(r.exc)
     ELSE LET j == JsonLoads(r.text) IN
          IF ~j.ok THEN data' = data /\ Raise("JSONDecodeError")
          ELSE data' = j.val /\ Goto("names")
  /\ UNCHANGED <<argv, fs, fs0, lenient, p, names, avgs, fig, i, maxCalls, out, stdout, writes,
                 run, prev>>

\* line 16
ExtractNames ==
  /\ pc = "names"
  /\ LET r == Extract(data, "Name") IN
     IF r.ok THEN names' = r.val /\ Goto("avgs")
     ELSE names' = names /\ Raise(r.exc)
  /\ UNCHANGED <<argv, fs, fs0, lenient, p, data, avgs, fig, i, maxCalls, out, stdout, reads,
                 writes, run, prev>>

\* line 17
ExtractAvgs ==
  /\ pc = "avgs"
  /\ LET r == Extract(data, "AvgMs") IN
     IF r.ok THEN avgs' = r.val /\ Goto("figure")
     ELSE avgs' = avgs /\ Raise(r.exc)
  /\ UNCHANGED <<argv, fs, fs0, lenient, p, data, names, fig, i, maxCalls, out, stdout, reads,
                 writes, run, prev>>

\* lines 19-20
NewFigure ==
  /\ pc = "figure"
  /\ fig' = [NoFig EXCEPT !.style = "ggplot"]
  /\ Goto("barh")
  /\ UNCHANGED <<argv, fs, fs0, lenient, p, data, names, avgs, i, maxCalls, out, stdout, reads,
                 writes, run, prev>>

\* line 21.  What matplotlib does with labels that are no strings or widths
\* that are no numbers is left open: the installed library draws them or
\* raises, the same way every time
DrawBars ==
  /\ pc = "barh"
  /\ IF BarhAccepts(names, avgs) \/ lenient
     THEN fig' = [fig EXCEPT !.bars = Barh(names, avgs, Colors(names))] /\ Goto("labels")
     ELSE fig' = fig /\ Raise("TypeError")
  /\ UNCHANGED <<argv, fs, fs0, lenient, p, data, names, avgs, i, maxCalls, out, stdout,
                 reads, writes, run, prev>>

\* lines 22-23
SetLabels ==
  /\ pc = "labels"
  /\ fig' = [fig EXCEPT !.xlabel = "Average elapsed (ms)",
                        !.title = "Performance baseline - Avg elapsed per scenario"]
  /\ Goto("loop")
  /\ UNCHANGED <<argv, fs, fs0, lenient, p, data, names, avgs, i, maxCalls, out, stdout, reads,
                 writes, run, prev>>

\* the loop head with the offset max(avgs)*0.01 computed once before the
\* loop: max of an empty list raises ValueError (sensitivity check of C6)
LoopHeadHoisted ==
  /\ pc = "loop"
  /\ IF avgs = <<>> THEN Raise("ValueError")
     ELSE IF i < Len(avgs) THEN Goto("text") ELSE Goto("out")
  /\ UNCHANGED <<argv, fs, fs0, lenient, p, data, names, avgs, fig, i, maxCalls, out, stdout,
                 reads, writes, run, prev>>

\* line 24: the loop head, taking the next (i, v) of enumerate(avgs) or
\* leaving the loop
LoopHead ==
  /\ pc = "loop"
  /\ IF i < Len(avgs) THEN Goto("text") ELSE Goto("out")
  /\ UNCHANGED <<argv, fs, fs0, lenient, p, data, names, avgs, fig, i, maxCalls, out, stdout,
                 reads, writes, run, prev>>

\* line 25, for the i-th value
Annotate ==
  /\ pc = "text"
  /\ maxCalls' = maxCalls + 1
  /\ LET v == avgs[i + 1]
         r == TextX(avgs, v)
     IN IF r.ok
        THEN /\ fig' = [fig EXCEPT !.texts =
                          Append(@, [x |-> r.x, row |-> i, label |-> Fmt0f(v),
                                     va |-> "center"])]
             /\ i' = i + 1
             /\ Goto("loop")
        ELSE fig' = fig /\ i' = i /\ Raise("TypeError")
  /\ UNCHANGED <<argv, fs, fs0, lenient, p, data, names, avgs, out, stdout, reads, writes, run,
                 prev>>

\* line 27
DeriveOut ==
  /\ pc = "out"
  /\ out' = OutPath(p)
  /\ Goto("layout")
  /\ UNCHANGED <<argv, fs, fs0, lenient, p, data, names, avgs, fig, i, maxCalls, stdout, reads,
                 writes, run, prev>>

\* line 28
TightLayout ==
  /\ pc = "layout"
  /\ fig' = [fig EXCEPT !.tight = TRUE]
  /\ Goto("save")
  /\ UNCHANGED <<argv, fs, fs0, lenient, p, data, names, avgs, i, maxCalls, out, stdout, reads,
                 writes, run, prev>>

\* line 29
Savefig ==
  /\ pc = "save"
  /\ writes' = writes \cup {out}
  /\ LET r == WriteFig(fs, out, fig) IN
     /\ fs' = r.files
     /\ IF r.ok THEN Goto("report") ELSE Raise(r.exc)
  /\ UNCHANGED <<argv, fs0, lenient, p, data, names, avgs, fig, i, maxCalls, out, stdout, reads,
                 run, prev>>

\* line 30, and the end of the script
Report ==
  /\ pc = "report"
  /\ stdout' = Append(stdout, WroteLine)
  /\ Exit(0)
  /\ UNCHANGED <<argv, fs, fs0, lenient, p, data, names, avgs, fig, i, maxCalls, out, reads,
                 writes, run, prev>>

\* the same command line is run again, on the file system the last run left
Rerun ==
  /\ pc = "exited"
  /\ run < MaxRuns
  /\ run' = run + 1
  /\ prev' = [exitCode |-> exitCode, out |-> out,
              saved |-> IF PathExists(fs, out) THEN fs[out].fig ELSE NoFig,
              stdout |-> stdout]
  /\ pc' = "args"
  /\ p' = NoPath
  /\ data' = PyNone
  /\ names' = <<>>
  /\ avgs' = <<>>
  /\ fig' = NoFig
  /\ i' = 0
  /\ maxCalls' = 0
  /\ out' = NoPath
  /\ stdout' = <<>>
  /\ exc' = ""
  /\ exitCode' = -1
  /\ reads' = {}
  /\ writes' = {}
  /\ UNCHANGED <<argv, fs, fs0, lenient>>

Next ==
  \/ CheckArgs
  \/ CheckPath
  \/ Load
  \/ ExtractNames
  \/ ExtractAvgs
  \/ NewFigure
  \/ DrawBars
  \/ SetLabels
  \/ LoopHead
  \/ Annotate
  \/ DeriveOut
  \/ TightLayout
  \/ Savefig
  \/ Report
  \/ Rerun

Spec == Init /\ [][Next]_vars

(***************************************************************************)
(* Vocabulary of the properties.                                           *)
(***************************************************************************)
ArgGiven == Len(argv) >= 2
\* the path the argument names
InputPath == PathOf(argv[2])
\* a regular text file was at the input path when the first run started
InputIsFile == ArgGiven /\ InputPath \in DOMAIN fs0 /\ fs0[InputPath].kind = "text"
InputText == fs0[InputPath].text

\* the tokens at b..b+8 are {"Name": <string>, "AvgMs": <number>}
RecordAt(toks, b) ==
  /\ toks[b] = P("{") /\ toks[b + 1] = TStr("Name") /\ toks[b + 2] = P(":")
  /\ toks[b + 3].k = "s"
  /\ toks[b + 4] = P(",") /\ toks[b + 5] = TStr("AvgMs") /\ toks[b + 6] = P(":")
  /\ toks[b + 7].k \in {"i", "f"}
  /\ toks[b + 8] = P("}")

\* the text is an array of n such records
IsRecordArray(toks, n) ==
  IF n = 0 THEN toks = <<P("["), P("]")>>
  ELSE /\ Len(toks) = 10 * n + 1
       /\ toks[1] = P("[")
       /\ \A j \in 0..(n - 1) :
            /\ RecordAt(toks, 2 + 10 * j)
            /\ toks[11 + 10 * j] = IF j = n - 1 THEN P("]") ELSE P(",")

\* the number of records of a well-formed text
RecordCount(toks) == IF Len(toks) = 2 THEN 0 ELSE (Len(toks) - 1) \div 10
WellFormed(toks) == Len(toks) >= 2 /\ IsRecordArray(toks, RecordCount(toks))
\* the Name and AvgMs literals of the j-th record (j from 1) of a well-formed text
NameTok(toks, j) == toks[10 * (j - 1) + 5]
AvgTok(toks, j) == toks[10 * (j - 1) + 9]
TokQuarters(tok) == IF tok.k = "f" THEN tok.n ELSE 4 * tok.n

\* a directory sits where the chart is to be written: the write fails (IOError)
OutputBlocked ==
  LET o == PathJoin(PathParent(InputPath),
                    Chars("plot-") \o PathStem(InputPath) \o Chars(".png"))
  IN o \in DOMAIN fs0 /\ fs0[o].kind = "dir"

WellFormedRun == InputIsFile /\ WellFormed(InputText) /\ ~OutputBlocked
Printed(msg) == \E j \in 1..Len(stdout) : stdout[j].msg = msg
OutBound == pc \in {"layout", "save", "report"} \/ (pc = "exited" /\ out # NoPath)

(***************************************************************************)
(* Properties.                                                             *)
(***************************************************************************)

\* the statements a run at pc still has to execute, at most
Rank ==
  LET left == Len(avgs) - i
      toks == IF p \in DOMAIN fs THEN Len(fs[p].text) ELSE 0
  IN CASE pc = "exited" -> 0
       [] pc = "report" -> 1
       [] pc = "save" -> 2
       [] pc = "layout" -> 3
       [] pc = "out" -> 4
       [] pc = "text" -> 4 + 2 * left
       [] pc = "loop" -> 5 + 2 * left
       [] pc = "labels" -> 6 + 2 * left
       [] pc = "barh" -> 7 + 2 * left
       [] pc = "figure" -> 8 + 2 * left
       [] pc = "avgs" -> 9 + 2 * Len(names)
       [] pc = "names" -> 10 + 2 * toks
       [] pc = "load" -> 11 + 2 * toks
       [] pc = "path" -> 12 + 2 * Len(InputText)
       [] pc = "args" -> 13 + 2 * Len(InputText)

\* C1: a run on a well-formed input file (an array of records with Name and
\* AvgMs), with no write failure, raises nothing, comes closer to its end with
\* every statement, and ends with the chart saved at the derived output path,
\* exactly the line "Wrote <output path>" printed and exit code 0; "Wrote" is
\* printed only by the last statement, once the save has completed.
C1_WellFormedRunWritesThenReports ==
  /\ [](WellFormedRun =>
          /\ exc = "" /\ exitCode \in {-1, 0}
          /\ pc = "exited" =>
               /\ exitCode = 0
               /\ out = PathJoin(PathParent(InputPath),
                                 Chars("plot-") \o PathStem(InputPath) \o Chars(".png"))
               /\ out \in DOMAIN fs /\ fs[out] = PngEntry(fig)
               /\ stdout = <<[msg |-> "Wrote", arg |-> PathStr(out)]>>)
  /\ [][WellFormedRun /\ pc # "exited" => Rank' < Rank /\ Rank' >= 0]_vars
  /\ [](Printed("Wrote") =>
          out \in writes /\ out \in DOMAIN fs /\ fs[out] = PngEntry(fig))
  /\ [][Printed("Wrote")' /\ ~Printed("Wrote") => pc = "report" /\ exitCode' = 0]_vars

\* C1 witness: a run on a well-formed two-record file has ended after saving
C1_Witness ==
  /\ WellFormedRun /\ RecordCount(InputText) = 2
  /\ pc = "exited" /\ Printed("Wrote") /\ out \in writes

\* C2: with no argument the run prints the usage line, exits with code 2, and
\* opens no file for reading or writing at any point.
C2_NoArgumentUsage ==
  ~ArgGiven =>
    /\ reads = {} /\ writes = {} /\ fs = fs0
    /\ pc = "exited" =>
         /\ stdout = <<[msg |-> "Usage: plot_performance.py <baseline.json>", arg |-> <<>>]>>
         /\ exitCode = 2

\* C2 witness: a run without argument has ended
C2_Witness == ~ArgGiven /\ pc = "exited" /\ DOMAIN fs # {}

\* C3 (as claimed): whenever the argument names no existing regular file -
\* nothing is there, or what is there is no file - the run prints "File not
\* found: <path>", exits with code 2, writes nothing and never gets to the load.
C3_NotAFileIsReported ==
  ArgGiven /\ ~InputIsFile =>
    /\ reads = {} /\ writes = {}
    /\ pc = "exited" =>
         /\ stdout = <<[msg |-> "File not found:", arg |-> PathStr(InputPath)]>>
         /\ exitCode = 2

\* the value of key in a decoded object
Field(d, key) == d.xs[CHOOSE j \in 1..Len(d.ks) : d.ks[j] = key]
HasField(d, key) == \E j \in 1..Len(d.ks) : d.ks[j] = key

\* the text is not JSON, or not an array, or one of its elements is not an
\* object with a string Name and a number AvgMs
MalformedData(toks) ==
  LET j == JsonLoads(toks) IN
  \/ ~j.ok
  \/ j.val.t # "list"
  \/ \E m \in 1..Len(j.val.xs) :
       LET e == j.val.xs[m] IN
       \/ e.t # "dict"
       \/ ~HasField(e, "Name") \/ ~HasField(e, "AvgMs")
       \/ Field(e, "Name").t # "str"
       \/ Field(e, "AvgMs").t \notin {"int", "float"}

\* C4 (as claimed): whenever the input file's content is invalid JSON, or is
\* valid JSON that is no array of records of the expected shape, or holds a
\* record whose Name or AvgMs is absent or of the wrong type, the run ends with
\* a non-zero exit status and never prints "Wrote".
C4_MalformedDataFailsLoudly ==
  InputIsFile /\ MalformedData(InputText) =>
    /\ ~Printed("Wrote")
    /\ pc = "exited" => exitCode # 0

\* the characters of e hold no dot
Dotless(e) == \A j \in 1..Len(e) : e[j] # "."
\* name is stem, a dot, and a non-empty extension without dots
FinalExtension(name, stem) ==
  /\ stem # <<>> /\ Len(stem) + 2 <= Len(name)
  /\ SubSeq(name, 1, Len(stem)) = stem
  /\ name[Len(stem) + 1] = "."
  /\ Dotless(SubSeq(name, Len(stem) + 2, Len(name)))
\* c, without its first Len(pre) and last Len(post) characters
Between(c, pre, post) == SubSeq(c, Len(pre) + 1, Len(c) - Len(post))

\* C5: once line 27 has run, out lies in the input path's parent directory and
\* its name is plot-<stem>.png, where <stem> is the input's file name with its
\* final extension removed, if it has one, and the whole name otherwise;
\* d/r.r.j gives d/plot-r.r.png.
C5_OutputPathDerivation ==
  OutBound =>
    LET name == p.parts[Len(p.parts)]
        oname == out.parts[Len(out.parts)]
        stem == Between(oname, Chars("plot-"), Chars(".png"))
    IN /\ out.root = p.root
       /\ Len(out.parts) = Len(p.parts)
       /\ SubSeq(out.parts, 1, Len(out.parts) - 1) = SubSeq(p.parts, 1, Len(p.parts) - 1)
       /\ Len(oname) >= 9
       /\ oname = Chars("plot-") \o stem \o Chars(".png")
       /\ stem = name \/ FinalExtension(name, stem)
       /\ (\E k \in 1..Len(name) : FinalExtension(name, SubSeq(name, 1, k))) => stem # name
       /\ Dotless(name) => stem = name
       /\ argv[2] = <<"d", "/", "r", ".", "r", ".", "j">> =>
            PathStr(out) = <<"d", "/">> \o Chars("plot-") \o <<"r", ".", "r">> \o Chars(".png")

\* C5 witness: the output path of d/r.r.j has been derived
C5_Witness ==
  /\ pc = "save" /\ argv[2] = <<"d", "/", "r", ".", "r", ".", "j">>
  /\ out.parts = << <<"d">>, Chars("plot-") \o <<"r", ".", "r">> \o Chars(".png") >>

\* C6: on an input file holding the empty array (and no write failure) max is
\* never evaluated, nothing is raised, and the run ends with a chart of zero
\* bars and zero annotations saved at the output path and exit code 0.
C6_EmptyArrayIsValid ==
  InputIsFile /\ InputText = <<P("["), P("]")>> /\ ~OutputBlocked =>
    /\ maxCalls = 0 /\ exc = "" /\ pc # "text"
    /\ pc = "exited" =>
         /\ exitCode = 0
         /\ out \in DOMAIN fs /\ fs[out].kind = "png"
         /\ fs[out].fig.bars = <<>> /\ fs[out].fig.texts = <<>>
         /\ Printed("Wrote")

\* C6 witness: a run on the empty array has ended after writing its chart
C6_Witness ==
  /\ InputIsFile /\ InputText = <<P("["), P("]")>>
  /\ pc = "exited" /\ out \in writes /\ avgs = <<>>

\* C7: on a well-formed input of n records, names and avgs (once bound) have
\* length n and their j-th entries are the Name and AvgMs literals of the j-th
\* record of the text; the bars (once drawn) are n, the j-th with label
\* names[j] and width avgs[j]; the k annotations placed so far are those of
\* rows 0..k-1 in this order, and all n are placed when the loop is left.
C7_SeriesParallelAndOrdered ==
  LET n == RecordCount(InputText) IN
  InputIsFile /\ WellFormed(InputText) =>
    /\ pc \in {"avgs", "figure", "barh", "labels", "loop", "text", "out", "layout",
               "save", "report"} =>
         /\ Len(names) = n
         /\ \A j \in 1..n : names[j].t = "str" /\ names[j].s = NameTok(InputText, j).s
    /\ pc \in {"figure", "barh", "labels", "loop", "text", "out", "layout", "save",
               "report"} =>
         /\ Len(avgs) = n
         /\ \A j \in 1..n :
              /\ avgs[j].t = IF AvgTok(InputText, j).k = "f" THEN "float" ELSE "int"
              /\ Quarters(avgs[j]) = TokQuarters(AvgTok(InputText, j))
    /\ pc \in {"labels", "loop", "text", "out", "layout", "save", "report"} =>
         /\ Len(fig.bars) = n
         /\ \A j \in 1..n : fig.bars[j].y = names[j] /\ fig.bars[j].width = avgs[j]
    /\ Len(fig.texts) = i
    /\ \A k \in 1..Len(fig.texts) : fig.texts[k].row = k - 1
    /\ pc \in {"out", "layout", "save", "report"} => Len(fig.texts) = n

\* C7 witness: two records of the same Name have been extracted, drawn and
\* annotated
C7_Witness ==
  /\ InputIsFile /\ WellFormed(InputText) /\ RecordCount(InputText) = 2
  /\ pc = "out" /\ Len(fig.texts) = 2
  /\ names[1] = names[2] /\ avgs[1] # avgs[2]

\* C8: when a run that ended with exit code 0 is repeated on the unchanged
\* input, the second run ends with exit code 0 too, with no exception, the
\* same output path, the same lines printed, and at the output path the same
\* chart as the first run left there.
C8_RerunOverwritesSameChart ==
  run >= 2 /\ prev.exitCode = 0 /\ pc = "exited" /\ fs[InputPath] = fs0[InputPath] =>
    /\ exitCode = 0 /\ exc = ""
    /\ out = prev.out
    /\ out \in writes
    /\ fs[out] = PngEntry(prev.saved)
    /\ stdout = prev.stdout

\* C8 witness: a second run has overwritten the non-empty chart of the first
C8_Witness ==
  /\ run = 2 /\ prev.exitCode = 0 /\ pc = "exited" /\ out \in writes
  /\ prev.saved.bars # <<>>

\* C9: a run reads no path but the input path and writes no path but the
\* derived output path, the two differ, and every file the first run found -
\* the input file among them - is unchanged unless a run wrote its chart there.
C9_OnlyInputReadOnlyOutputWritten ==
  ArgGiven =>
    /\ reads \subseteq {InputPath}
    /\ writes \subseteq {out}
    /\ OutBound => out # InputPath /\ out # p
    /\ \A q \in DOMAIN fs0 :
         /\ q \in DOMAIN fs
         /\ fs[q] # fs0[q] => q # InputPath /\ (q \in writes \/ (run >= 2 /\ q = prev.out))
    /\ InputPath \in DOMAIN fs0 => InputPath \in DOMAIN fs /\ fs[InputPath] = fs0[InputPath]

\* C9 witness: a run on an input named plot-a.png has written its chart
C9_Witness ==
  /\ ArgGiven /\ argv[2] = Chars("plot-") \o <<"a">> \o Chars(".png")
  /\ pc = "exited" /\ out \in writes /\ reads = {InputPath}

\* the largest of the values, in quarters
MaxQuarters(xs) ==
  CHOOSE m \in {Quarters(xs[j]) : j \in 1..Len(xs)} :
    \A j \in 1..Len(xs) : Quarters(xs[j]) <= m

\* what C10 and its amended form share: the k-th annotation is at row k-1,
\* reads avgs[k] rounded to the nearest integer followed by " ms", and is at
\* avgs[k] + max(avgs)/100
AnnotationPlaced(k) ==
  LET t == fig.texts[k]
      q == Quarters(avgs[k])
      a == IF q < 0 THEN -q ELSE q
  IN /\ t.row = k - 1
     /\ t.label.unit = " ms"
     /\ t.label.int >= 0 /\ 4 * t.label.int - a \in (-2)..2
     /\ t.label.neg = (q < 0)
     /\ t.x = 100 * q + MaxQuarters(avgs)

\* C10 (as claimed): every annotation is placed as above, one per record, and
\* lies strictly past the end of its bar, whatever the values.
C10_AnnotationStrictlyPastBar ==
  /\ Len(fig.texts) = i
  /\ pc \in {"out", "layout", "save", "report"} => Len(fig.texts) = Len(avgs)
  /\ \A k \in 1..Len(fig.texts) :
       AnnotationPlaced(k) /\ fig.texts[k].x > 100 * Quarters(avgs[k])

\* C10 (amended): every annotation is placed as above, one per record; it lies
\* strictly past the end of its bar exactly when the largest value is
\* positive, at the end of the bar when the largest value is zero, and short
\* of it when all values are negative.
C10_AnnotationOffsetFollowsMax ==
  /\ Len(fig.texts) = i
  /\ pc \in {"out", "layout", "save", "report"} => Len(fig.texts) = Len(avgs)
  /\ \A k \in 1..Len(fig.texts) :
       /\ AnnotationPlaced(k)
       /\ MaxQuarters(avgs) > 0 <=> fig.texts[k].x > 100 * Quarters(avgs[k])
       /\ MaxQuarters(avgs) = 0 <=> fig.texts[k].x = 100 * Quarters(avgs[k])
       /\ MaxQuarters(avgs) < 0 <=> fig.texts[k].x < 100 * Quarters(avgs[k])

\* C10 witness: of two annotated values, one negative and rounded to "-0", the
\* largest is positive, and one label is rounded up
C10_Witness ==
  /\ pc = "out" /\ Len(fig.texts) = 2
  /\ Quarters(avgs[1]) = -1 /\ fig.texts[1].label = [neg |-> TRUE, int |-> 0, unit |-> " ms"]
  /\ Quarters(avgs[2]) = 3 /\ fig.texts[2].label = [neg |-> FALSE, int |-> 1, unit |-> " ms"]
  /\ fig.texts[1].x = -97

====
